---- MODULE Spec2Model ----
(***************************************************************************)
(* The two Pico bring-up programs of fpga_pico_loader:                      *)
(*   stage1/uart_test.c   echo loop: toggle the LED and echo each byte      *)
(*   stage3/bootloader.c  receive exactly 256 bytes into RAM at 0x20001000  *)
(* Each is one main(); the model is its control flow, one action per       *)
(* statement (or group of statements without an observable point between   *)
(* them), plus the sender on the other end of the serial line.             *)
(*                                                                         *)
(* The serial link is the RX FIFO the SDK calls read: the sender appends,  *)
(* uart_is_readable tests for emptiness, uart_getc removes the head.       *)
(* "Sent" means delivered to that FIFO; bytes a real UART would drop       *)
(* (receiver not yet enabled, overrun) are not part of the stream.         *)
(***************************************************************************)
EXTENDS Integers, Sequences, FiniteSets

VARIABLES
  prog,       \* which program runs: "bootloader" or "uart_test"
  pc,         \* position of main() in its source
  k,          \* the ready loop's counter (int i of the first for loop)
  i,          \* bootloader: the receive loop's counter / write cursor
  led,        \* level of LED_PIN
  led_state,  \* uart_test: bool led_state
  byte,       \* uart_test: uint8_t byte
  mem,        \* RAM from RAM_LOAD_ADDRESS on, by offset
  rx,         \* UART receive FIFO
  out,        \* bytes written with uart_putc, in order
  sent,       \* history: every byte the sender has delivered, in order
  nread,      \* history: number of uart_getc calls made
  toggles,    \* history: number of level changes of LED_PIN (saturating)
  seed,       \* bootloader: which test stream the sender plays
  wlog        \* history: the RAM offsets written, in order

vars == <<prog, pc, k, i, led, led_state, byte, mem, rx, out, sent, nread,
          toggles, seed, wlog>>

----------------------------------------------------------------------------
(* Program constants *)

PROGRAM_SIZE == 256
LOADER_BLINKS == 5
DIAG_BLINKS == 3

(* Bounds of the model *)

\* most bytes the sender lets wait in the FIFO
MaxPending == 3
\* bootloader: bytes the sender may deliver beyond PROGRAM_SIZE
MaxExtra == 2
\* uart_test: bytes the sender delivers in all
MaxDiagBytes == 4

\* RAM cells modelled: the buffer and a few cells past its end
RamCells == PROGRAM_SIZE + MaxExtra
\* the LED's level changes are counted up to here (the success loop and a
\* runaway echo loop would count without end)
ToggleCap == 2 * LOADER_BLINKS + MaxDiagBytes + 2

Bytes == 0 .. 255
\* uart_test: the values the sender draws each byte from
DiagBytes == {0, 65, 255}
\* bootloader: the sender plays one of these streams
Seeds == {0, 200}
\* what RAM holds before the program runs
RamFill == {0, 255}

\* bootloader: the n-th byte (from 1) of the stream with this seed
Stream(s, n) == (s + n) % 256

----------------------------------------------------------------------------
(* SDK calls, as the programs use them *)

UartIsReadable == rx # <<>>

\* uart_getc returns a char, stored into a uint8_t
ToU8(c) == c % 256

UartGetc == ToU8(Head(rx))

Bump(n) == IF n < ToggleCap THEN n + 1 ELSE n

\* gpio_put(LED_PIN, v)
GpioPut(v) ==
  /\ led' = v
  /\ toggles' = IF v # led THEN Bump(toggles) ELSE toggles

\* program_memory[a] = v
MemWrite(a, v) ==
  /\ mem' = [mem EXCEPT ![a] = v]
  /\ wlog' = Append(wlog, a)

\* variant: the two programs' blink counts exchanged
ReadyBlinks_Swapped ==
  IF prog = "bootloader" THEN DIAG_BLINKS ELSE LOADER_BLINKS

ReadyBlinks == IF prog = "bootloader" THEN LOADER_BLINKS ELSE DIAG_BLINKS

----------------------------------------------------------------------------
Init ==
  /\ prog \in {"bootloader", "uart_test"}
  /\ pc = "init"
  /\ k = 0
  /\ i = 0
  /\ led = FALSE
  /\ led_state = FALSE
  /\ byte = 0
  /\ \E f \in RamFill : mem = [a \in 0 .. RamCells - 1 |-> f]
  /\ rx = <<>>
  /\ out = <<>>
  /\ sent = <<>>
  /\ nread = 0
  /\ toggles = 0
  /\ seed \in (IF prog = "bootloader" THEN Seeds ELSE {0})
  /\ wlog = <<>>

(* The sender: delivers one more byte into the FIFO. *)
SendLimit == IF prog = "bootloader" THEN PROGRAM_SIZE + MaxExtra ELSE MaxDiagBytes

SendChoices ==
  IF prog = "bootloader" THEN {Stream(seed, Len(sent) + 1)} ELSE DiagBytes

Send ==
  /\ pc # "init"
  /\ Len(rx) < MaxPending
  /\ Len(sent) < SendLimit
  /\ \E b \in SendChoices :
       /\ rx' = Append(rx, b)
       /\ sent' = Append(sent, b)
  /\ UNCHANGED <<prog, pc, k, i, led, led_state, byte, mem, out, nread,
                 toggles, seed, wlog>>

----------------------------------------------------------------------------
(* Both programs: initialisation and the ready blinks *)

\* gpio_init, gpio_set_dir, uart_init, gpio_set_function; int i = 0
Setup ==
  /\ pc = "init"
  /\ pc' = "ready"
  /\ k' = 0
  /\ led' = FALSE
  /\ UNCHANGED <<prog, i, led_state, byte, mem, rx, out, sent, nread,
                 toggles, seed, wlog>>

\* i < N holds: gpio_put(LED_PIN, 1); sleep_ms
ReadyOn ==
  /\ pc = "ready"
  /\ k < ReadyBlinks
  /\ GpioPut(TRUE)
  /\ pc' = "ready_hi"
  /\ UNCHANGED <<prog, k, i, led_state, byte, mem, rx, out, sent, nread,
                 seed, wlog>>

\* gpio_put(LED_PIN, 0); sleep_ms
ReadyOff ==
  /\ pc = "ready_hi"
  /\ GpioPut(FALSE)
  /\ pc' = "ready_lo"
  /\ UNCHANGED <<prog, k, i, led_state, byte, mem, rx, out, sent, nread,
                 seed, wlog>>

\* variant: a byte waiting at the end of a blink is read and dropped
ReadyNext_Drain ==
  /\ pc = "ready_lo"
  /\ k' = k + 1
  /\ rx' = IF UartIsReadable THEN Tail(rx) ELSE rx
  /\ nread' = IF UartIsReadable THEN nread + 1 ELSE nread
  /\ pc' = "ready"
  /\ UNCHANGED <<prog, i, led, led_state, byte, mem, out, sent, toggles,
                 seed, wlog>>

\* i++
ReadyNext ==
  /\ pc = "ready_lo"
  /\ k' = k + 1
  /\ pc' = "ready"
  /\ UNCHANGED <<prog, i, led, led_state, byte, mem, rx, out, sent, nread,
                 toggles, seed, wlog>>

----------------------------------------------------------------------------
(* bootloader.c *)

\* variant: a waiting byte ends the ready blinks
LoaderReadyExit_OnByte ==
  /\ prog = "bootloader"
  /\ pc = "ready"
  /\ (~(k < ReadyBlinks) \/ UartIsReadable)
  /\ pc' = "pause"
  /\ UNCHANGED <<prog, k, i, led, led_state, byte, mem, rx, out, sent, nread,
                 toggles, seed, wlog>>

\* i < 5 fails: sleep_ms(200)
LoaderReadyExit ==
  /\ prog = "bootloader"
  /\ pc = "ready"
  /\ ~(k < ReadyBlinks)
  /\ pc' = "pause"
  /\ UNCHANGED <<prog, k, i, led, led_state, byte, mem, rx, out, sent, nread,
                 toggles, seed, wlog>>

\* gpio_put(LED_PIN, 1); program_memory = RAM_LOAD_ADDRESS; int i = 0
HoldOn ==
  /\ pc = "pause"
  /\ GpioPut(TRUE)
  /\ i' = 0
  /\ pc' = "recv"
  /\ UNCHANGED <<prog, k, led_state, byte, mem, rx, out, sent, nread,
                 seed, wlog>>

\* variant: the loop test lets one iteration too many through
RecvContinues_Over == i <= PROGRAM_SIZE

\* variant: the loop test off by one
RecvContinues_OffByOne == i < PROGRAM_SIZE - 1

\* the receive loop's test, i < PROGRAM_SIZE
RecvContinues == i < PROGRAM_SIZE

\* variant: the loop gives up when no byte is waiting
RecvTest_EarlyExit ==
  /\ pc = "recv"
  /\ pc' = IF RecvContinues /\ UartIsReadable THEN "wait" ELSE "success"
  /\ UNCHANGED <<prog, k, i, led, led_state, byte, mem, rx, out, sent, nread,
                 toggles, seed, wlog>>

RecvTest ==
  /\ pc = "recv"
  /\ pc' = IF RecvContinues THEN "wait" ELSE "success"
  /\ UNCHANGED <<prog, k, i, led, led_state, byte, mem, rx, out, sent, nread,
                 toggles, seed, wlog>>

\* while (!uart_is_readable(UART_ID)) tight_loop_contents();
WaitSpin ==
  /\ pc = "wait"
  /\ ~UartIsReadable
  /\ UNCHANGED vars

WaitDone ==
  /\ pc = "wait"
  /\ UartIsReadable
  /\ pc' = "store"
  /\ UNCHANGED <<prog, k, i, led, led_state, byte, mem, rx, out, sent, nread,
                 toggles, seed, wlog>>

\* variant: each stored byte is acknowledged by echoing it
StoreByte_Ack ==
  /\ pc = "store"
  /\ UartIsReadable
  /\ MemWrite(i, UartGetc)
  /\ out' = Append(out, UartGetc)
  /\ rx' = Tail(rx)
  /\ nread' = nread + 1
  /\ i' = i + 1
  /\ pc' = "recv"
  /\ UNCHANGED <<prog, k, led, led_state, byte, sent, toggles, seed>>

\* variant: the cell after the stored byte is cleared as a terminator
StoreByte_Clear ==
  /\ pc = "store"
  /\ UartIsReadable
  /\ mem' = [mem EXCEPT ![i] = UartGetc, ![i + 1] = 0]
  /\ wlog' = wlog \o <<i, i + 1>>
  /\ rx' = Tail(rx)
  /\ nread' = nread + 1
  /\ i' = i + 1
  /\ pc' = "recv"
  /\ UNCHANGED <<prog, k, led, led_state, byte, out, sent, toggles, seed>>

\* variant: the buffer is filled from its end
StoreByte_Reversed ==
  /\ pc = "store"
  /\ UartIsReadable
  /\ MemWrite(PROGRAM_SIZE - 1 - i, UartGetc)
  /\ rx' = Tail(rx)
  /\ nread' = nread + 1
  /\ i' = i + 1
  /\ pc' = "recv"
  /\ UNCHANGED <<prog, k, led, led_state, byte, out, sent, toggles, seed>>

\* variant: the LED flickers with each byte stored
StoreByte_Blink ==
  /\ pc = "store"
  /\ UartIsReadable
  /\ MemWrite(i, UartGetc)
  /\ rx' = Tail(rx)
  /\ nread' = nread + 1
  /\ i' = i + 1
  /\ GpioPut(~led)
  /\ pc' = "recv"
  /\ UNCHANGED <<prog, k, led_state, byte, out, sent, seed>>

\* program_memory[i] = uart_getc(UART_ID); i++
StoreByte ==
  /\ pc = "store"
  /\ UartIsReadable
  /\ MemWrite(i, UartGetc)
  /\ rx' = Tail(rx)
  /\ nread' = nread + 1
  /\ i' = i + 1
  /\ pc' = "recv"
  /\ UNCHANGED <<prog, k, led, led_state, byte, out, sent, toggles, seed>>

\* while (1): gpio_put(LED_PIN, 1); sleep_ms(500)
SlowOn ==
  /\ pc = "success"
  /\ GpioPut(TRUE)
  /\ pc' = "slow_hi"
  /\ UNCHANGED <<prog, k, i, led_state, byte, mem, rx, out, sent, nread,
                 seed, wlog>>

\* variant: the second gpio_put of the success loop also writes 1
SlowOff_StuckOn ==
  /\ pc = "slow_hi"
  /\ GpioPut(TRUE)
  /\ pc' = "slow_lo"
  /\ UNCHANGED <<prog, k, i, led_state, byte, mem, rx, out, sent, nread,
                 seed, wlog>>

\* gpio_put(LED_PIN, 0); sleep_ms(500)
SlowOff ==
  /\ pc = "slow_hi"
  /\ GpioPut(FALSE)
  /\ pc' = "slow_lo"
  /\ UNCHANGED <<prog, k, i, led_state, byte, mem, rx, out, sent, nread,
                 seed, wlog>>

\* variant: after a slow blink the program receives again
SlowLoop_Rearm ==
  /\ pc = "slow_lo"
  /\ i' = 0
  /\ pc' = "recv"
  /\ UNCHANGED <<prog, k, led, led_state, byte, mem, rx, out, sent, nread,
                 toggles, seed, wlog>>

\* back to the head of while (1)
SlowLoop ==
  /\ pc = "slow_lo"
  /\ pc' = "success"
  /\ UNCHANGED <<prog, k, i, led, led_state, byte, mem, rx, out, sent, nread,
                 toggles, seed, wlog>>

----------------------------------------------------------------------------
(* uart_test.c *)

\* variant: bool led_state = true
DiagReadyExit_StateTrue ==
  /\ prog = "uart_test"
  /\ pc = "ready"
  /\ ~(k < ReadyBlinks)
  /\ led_state' = TRUE
  /\ pc' = "poll"
  /\ UNCHANGED <<prog, k, i, led, byte, mem, rx, out, sent, nread, toggles,
                 seed, wlog>>

\* i < 3 fails: bool led_state = false
DiagReadyExit ==
  /\ prog = "uart_test"
  /\ pc = "ready"
  /\ ~(k < ReadyBlinks)
  /\ led_state' = FALSE
  /\ pc' = "poll"
  /\ UNCHANGED <<prog, k, i, led, byte, mem, rx, out, sent, nread, toggles,
                 seed, wlog>>

\* variant: an idle iteration flips the LED as a heartbeat
PollIdle_Heartbeat ==
  /\ pc = "poll"
  /\ ~UartIsReadable
  /\ GpioPut(~led)
  /\ UNCHANGED <<prog, pc, k, i, led_state, byte, mem, rx, out, sent, nread,
                 seed, wlog>>

\* if (uart_is_readable(UART_ID)) is false: next iteration of while (1)
PollIdle ==
  /\ pc = "poll"
  /\ ~UartIsReadable
  /\ UNCHANGED vars

PollReady ==
  /\ pc = "poll"
  /\ UartIsReadable
  /\ pc' = "getc"
  /\ UNCHANGED <<prog, k, i, led, led_state, byte, mem, rx, out, sent, nread,
                 toggles, seed, wlog>>

\* variant: the FIFO is drained, the last byte read is kept
EchoGetc_Drain ==
  /\ pc = "getc"
  /\ UartIsReadable
  /\ byte' = ToU8(rx[Len(rx)])
  /\ rx' = <<>>
  /\ nread' = nread + Len(rx)
  /\ pc' = "toggle"
  /\ UNCHANGED <<prog, k, i, led, led_state, mem, out, sent, toggles,
                 seed, wlog>>

\* uint8_t byte = uart_getc(UART_ID)
EchoGetc ==
  /\ pc = "getc"
  /\ UartIsReadable
  /\ byte' = UartGetc
  /\ rx' = Tail(rx)
  /\ nread' = nread + 1
  /\ pc' = "toggle"
  /\ UNCHANGED <<prog, k, i, led, led_state, mem, out, sent, toggles,
                 seed, wlog>>

\* variant: gpio_put(LED_PIN, !led_state) without storing the new state
EchoToggle_NoStore ==
  /\ pc = "toggle"
  /\ GpioPut(~led_state)
  /\ pc' = "echo"
  /\ UNCHANGED <<prog, k, i, led_state, byte, mem, rx, out, sent, nread,
                 seed, wlog>>

\* led_state = !led_state; gpio_put(LED_PIN, led_state)
EchoToggle ==
  /\ pc = "toggle"
  /\ led_state' = ~led_state
  /\ GpioPut(~led_state)
  /\ pc' = "echo"
  /\ UNCHANGED <<prog, k, i, byte, mem, rx, out, sent, nread, seed, wlog>>

\* variant: the echo keeps seven bits
EchoPutc_SevenBit ==
  /\ pc = "echo"
  /\ out' = Append(out, byte % 128)
  /\ pc' = "poll"
  /\ UNCHANGED <<prog, k, i, led, led_state, byte, mem, rx, sent, nread,
                 toggles, seed, wlog>>

\* uart_putc(UART_ID, byte)
EchoPutc ==
  /\ pc = "echo"
  /\ out' = Append(out, byte)
  /\ pc' = "poll"
  /\ UNCHANGED <<prog, k, i, led, led_state, byte, mem, rx, sent, nread,
                 toggles, seed, wlog>>

----------------------------------------------------------------------------
ProgStep ==
  \/ Setup
  \/ ReadyOn
  \/ ReadyOff
  \/ ReadyNext
  \/ LoaderReadyExit
  \/ HoldOn
  \/ RecvTest
  \/ WaitSpin
  \/ WaitDone
  \/ StoreByte
  \/ SlowOn
  \/ SlowOff
  \/ SlowLoop
  \/ DiagReadyExit
  \/ PollIdle
  \/ PollReady
  \/ EchoGetc
  \/ EchoToggle
  \/ EchoPutc

Next == Send \/ ProgStep

Spec == Init /\ [][Next]_vars

\* the processor keeps executing main(); nothing obliges the sender to send
FairSpec == Spec /\ WF_vars(ProgStep)

----------------------------------------------------------------------------
(* Vocabulary of the properties *)

Loader == prog = "bootloader"
Diag == prog = "uart_test"

InReady == pc \in {"ready", "ready_hi", "ready_lo"}
InReceiving == pc \in {"recv", "wait", "store"}
InSuccess == pc \in {"success", "slow_hi", "slow_lo"}
InEcho == pc \in {"poll", "getc", "toggle", "echo"}

\* the destination buffer: the first PROGRAM_SIZE cells of RAM
Buffer == [n \in 1 .. PROGRAM_SIZE |-> mem[n - 1]]

TypeOK ==
  /\ prog \in {"bootloader", "uart_test"}
  /\ pc \in {"init", "ready", "ready_hi", "ready_lo", "pause", "recv", "wait",
             "store", "success", "slow_hi", "slow_lo", "poll", "getc",
             "toggle", "echo"}
  /\ k \in 0 .. LOADER_BLINKS
  /\ i \in 0 .. PROGRAM_SIZE
  /\ led \in BOOLEAN
  /\ led_state \in BOOLEAN
  /\ byte \in Bytes
  /\ mem \in [0 .. RamCells - 1 -> Bytes]
  /\ rx \in Seq(Bytes)
  /\ out \in Seq(Bytes)
  /\ sent \in Seq(Bytes)
  /\ nread \in Nat
  /\ toggles \in 0 .. ToggleCap
  /\ wlog \in Seq(0 .. RamCells - 1)

----------------------------------------------------------------------------
(* Properties *)

\* the bytes the program has taken from the FIFO, in order
Consumed == SubSeq(sent, 1, nread)

\* C1: bootloader: once the sender has delivered exactly 256 bytes the
\* program eventually leaves the receive loop and blinks slowly, and from
\* the moment it leaves the loop the 256-cell destination buffer equals the
\* first 256 bytes sent, in order.
C1_LoadCompletes ==
  /\ (Loader /\ Len(sent) = PROGRAM_SIZE) ~> (Loader /\ InSuccess)
  /\ [](Loader /\ (InSuccess \/ (pc = "recv" /\ ~RecvContinues))
          => /\ Len(sent) >= PROGRAM_SIZE
             /\ Buffer = SubSeq(sent, 1, PROGRAM_SIZE))

C1_Witness ==
  /\ Loader
  /\ pc = "slow_hi"
  /\ Len(sent) = PROGRAM_SIZE
  /\ Buffer = sent

\* C2: bootloader: with write cursor i, cells 0..i-1 of the buffer hold the
\* first i bytes sent, the N-th byte sent at index N-1; the cursor equals
\* the number of bytes taken from the UART.
C2_ByteOrdering ==
  Loader =>
    /\ i <= Len(sent)
    /\ \A n \in 1 .. i : mem[n - 1] = sent[n]
    /\ (InReceiving \/ InSuccess) => i = nread

C2_Witness ==
  /\ Loader
  /\ pc = "wait"
  /\ i = PROGRAM_SIZE - 1
  /\ Len(rx) = 1

\* C3: bootloader: the success phase is reached only with exactly 256 bytes
\* consumed, so never while fewer than 256 have been delivered; and while
\* the wait loop finds no byte the program stays in it (no timeout).
C3_NoPartialCompletion ==
  /\ [](Loader /\ InSuccess
          => nread = PROGRAM_SIZE /\ Len(sent) >= PROGRAM_SIZE)
  /\ [](Loader /\ Len(sent) < PROGRAM_SIZE => ~InSuccess)
  /\ [][Loader /\ pc = "wait" /\ ~UartIsReadable => pc' = "wait"]_vars

C3_Witness ==
  /\ Loader
  /\ pc = "wait"
  /\ rx = <<>>
  /\ Len(sent) = PROGRAM_SIZE - 1
  /\ nread = Len(sent)

\* C4: bootloader: once the success phase is reached the program stays in
\* it and takes nothing more from the UART: the count of consumed bytes
\* stays at 256 and bytes delivered later stay in the FIFO.
C4_NoRearm ==
  /\ [](Loader /\ InSuccess => nread = PROGRAM_SIZE /\ i = PROGRAM_SIZE)
  /\ [][Loader /\ InSuccess
          => /\ InSuccess'
             /\ nread' = nread
             /\ i' = i
             /\ Len(rx') >= Len(rx)
             /\ SubSeq(rx', 1, Len(rx)) = rx]_vars

C4_Witness ==
  /\ Loader
  /\ pc = "slow_lo"
  /\ Len(sent) > PROGRAM_SIZE
  /\ rx = SubSeq(sent, PROGRAM_SIZE + 1, Len(sent))

\* C5: uart_test: the bytes written back with uart_putc are, in order, the
\* bytes sent: the output is always a prefix of the input (whenever the
\* bytes arrived, the ready blinks included), and equals it whenever the
\* loop polls with nothing left to read.
C5_EchoIdentity ==
  Diag =>
    /\ Len(out) <= Len(sent)
    /\ out = SubSeq(sent, 1, Len(out))
    /\ (pc = "poll" /\ ~UartIsReadable) => out = sent

C5_Witness ==
  /\ Diag
  /\ pc = "poll"
  /\ rx = <<>>
  /\ Len(out) >= 3
  /\ out = sent
  /\ out[1] # out[2]
  /\ out[3] = 255

\* C6: uart_test: the LED changes level once per received byte: in the echo
\* loop the number of level changes since the ready blinks equals the
\* number of bytes consumed (less the one whose toggle is still to come),
\* so N toggles once N bytes sent have been handled.
C6_TogglePerByte ==
  (Diag /\ InEcho) =>
    /\ toggles - 2 * 3 = nread - (IF pc = "toggle" THEN 1 ELSE 0)
    /\ (pc = "poll" /\ ~UartIsReadable) => toggles - 2 * 3 = Len(sent)

C6_Witness ==
  /\ Diag
  /\ pc = "poll"
  /\ rx = <<>>
  /\ Len(sent) = 3
  /\ toggles = 2 * 3 + 3

\* C7: both programs: the ready phase is exactly 3 (uart_test) or 5
\* (bootloader) full on/off cycles of the LED, whatever arrives on the
\* serial line meanwhile: cycle k+1 begins after 2k level changes, and the
\* program leaves the phase after the last cycle with the LED off.
C7_ReadyCycles ==
  LET cycles == IF Loader THEN 5 ELSE 3 IN
    /\ InReady =>
         /\ k <= cycles
         /\ toggles = 2 * k + (CASE pc = "ready" -> 0
                                  [] pc = "ready_hi" -> 1
                                  [] pc = "ready_lo" -> 2)
         /\ led = (pc = "ready_hi")
         /\ nread = 0
    /\ (pc # "init" /\ ~InReady) => k = cycles
    /\ (pc = "pause" \/ (pc = "poll" /\ nread = 0)) =>
         /\ toggles = 2 * cycles
         /\ led = FALSE

C7_Witness ==
  /\ Loader
  /\ pc = "pause"
  /\ Len(rx) = MaxPending
  /\ toggles = 10

\* C8: bootloader, as its header comment has it: the LED blinks rapidly
\* while the program waits for data (while no byte has arrived the LED is
\* in the rapid-blink pattern: the ready blinks or the pause after them),
\* is solid on when receiving, and blinks slowly when reception is complete.
C8_LedFeedback ==
  (Loader /\ pc # "init") =>
    /\ sent = <<>> => (InReady \/ pc = "pause")
    /\ (InReceiving /\ sent # <<>>) => led = TRUE
    /\ InSuccess => nread = PROGRAM_SIZE

PhaseRank ==
  CASE pc = "init" -> 0
    [] InReady \/ pc = "pause" -> 1
    [] InReceiving -> 2
    [] InSuccess -> 3
    [] OTHER -> 4

\* C10: bootloader: the phases INIT, READY-BLINK, RECEIVING, SUCCESS-BLINK
\* are visited in this order only: no step goes back, none skips a phase,
\* there is no other phase, SUCCESS-BLINK is never left; READY-BLINK is
\* left only with 5 blink cycles done and RECEIVING only with 256 bytes
\* stored.
C10_PhaseOrder ==
  /\ [](Loader => PhaseRank \in 0 .. 3)
  /\ [][Loader =>
          /\ PhaseRank' \in {PhaseRank, PhaseRank + 1}
          /\ (PhaseRank = 1 /\ PhaseRank' = 2)
               => (k = 5 /\ toggles = 2 * 5)
          /\ (PhaseRank = 2 /\ PhaseRank' = 3)
               => (i = PROGRAM_SIZE /\ nread = PROGRAM_SIZE)
          /\ PhaseRank = 3 => PhaseRank' = 3]_vars

C10_Witness ==
  /\ Loader
  /\ pc = "success"
  /\ k = 5
  /\ i = PROGRAM_SIZE

\* C11: bootloader: every buffer write consumes exactly one byte (as many
\* bytes consumed as writes made, each step that consumes a byte making one
\* write), the receive loop is left only after exactly 256 writes, and
\* every write goes to an index in 0..255.
C11_OneBytePerWrite ==
  /\ [](Loader =>
          /\ Len(wlog) = nread
          /\ \A n \in 1 .. Len(wlog) : wlog[n] \in 0 .. PROGRAM_SIZE - 1
          /\ InReceiving => Len(wlog) = i
          /\ InSuccess => Len(wlog) = PROGRAM_SIZE)
  /\ [][Loader =>
          /\ (nread' # nread) = (wlog' # wlog)
          /\ nread' \in {nread, nread + 1}
          /\ (InReceiving /\ InSuccess') => Len(wlog) = PROGRAM_SIZE]_vars

C11_Witness ==
  /\ Loader
  /\ pc = "recv"
  /\ Len(wlog) = PROGRAM_SIZE
  /\ wlog[PROGRAM_SIZE] = PROGRAM_SIZE - 1
  /\ rx # <<>>

\* C12: bootloader: once the success phase is reached the program never
\* leaves it (main never returns) and the LED keeps alternating: from any
\* state of the phase the LED is later on, and later off, again and again.
C12_SlowBlinkForever ==
  /\ [][Loader /\ InSuccess => InSuccess']_vars
  /\ [](Loader /\ InSuccess => ENABLED ProgStep)
  /\ (Loader /\ InSuccess) ~> (InSuccess /\ led = TRUE)
  /\ (Loader /\ InSuccess /\ led = TRUE) ~> (InSuccess /\ led = FALSE)

C12_Witness ==
  /\ Loader
  /\ pc = "slow_lo"
  /\ led = FALSE
  /\ toggles = ToggleCap

\* C13: uart_test: the echo loop is never left and can always take another
\* step, however many bytes it has handled; an iteration that finds no byte
\* available changes neither the LED, nor the count of consumed bytes, nor
\* the output, and stays at the poll.
C13_IdleLoop ==
  /\ [][Diag /\ InEcho => InEcho']_vars
  /\ [](Diag /\ InEcho => ENABLED ProgStep)
  /\ [][Diag /\ pc = "poll" /\ ~UartIsReadable =>
          /\ pc' = "poll"
          /\ led' = led
          /\ led_state' = led_state
          /\ toggles' = toggles
          /\ nread' = nread
          /\ out' = out]_vars

C13_Witness ==
  /\ Diag
  /\ pc = "poll"
  /\ rx = <<>>
  /\ Len(sent) = MaxDiagBytes
  /\ nread = MaxDiagBytes
  /\ ENABLED PollIdle

\* C14: the bootloader only receives: in every state it has transmitted
\* nothing on the serial link, whatever it has consumed; uart_test receives
\* and transmits: it has written back every byte it has consumed, but for
\* the one it is handling.
C14_ReceiveOnly ==
  /\ Loader => out = <<>>
  /\ (Diag /\ InEcho) =>
       Len(out) = nread - (IF pc \in {"toggle", "echo"} THEN 1 ELSE 0)

C14_Witness ==
  /\ Loader
  /\ pc = "recv"
  /\ nread = 2
  /\ out = <<>>

\* C15: uart_test: between iterations of the echo loop the LED is on
\* exactly when an odd number of bytes has been consumed since the loop was
\* entered, and led_state is the LED's level (both start off).
C15_LedParity ==
  (Diag /\ pc = "poll") =>
    /\ led = (nread % 2 = 1)
    /\ led_state = led

C15_Witness ==
  /\ Diag
  /\ pc = "poll"
  /\ nread = 3
  /\ led = TRUE

\* C16: uart_test: an iteration consumes at most one byte, and per byte the
\* order is consume, toggle, echo: the output is always a prefix of the
\* consumed input and at most one byte shorter, shorter exactly between the
\* consume and the echo, and the toggles since the ready blinks are never
\* fewer than the echoed bytes: equal, but one ahead just before the echo.
C16_ConsumeToggleEcho ==
  /\ [](Diag =>
          /\ nread <= Len(sent)
          /\ Len(out) <= nread
          /\ nread <= Len(out) + 1
          /\ out = SubSeq(Consumed, 1, Len(out))
          /\ InEcho => toggles - 2 * DIAG_BLINKS >= Len(out)
          /\ pc \in {"poll", "getc"} =>
               (nread = Len(out) /\ toggles - 2 * DIAG_BLINKS = Len(out))
          /\ pc = "toggle" =>
               /\ nread = Len(out) + 1
               /\ toggles - 2 * DIAG_BLINKS = Len(out)
               /\ byte = sent[nread]
          /\ pc = "echo" =>
               /\ nread = Len(out) + 1
               /\ toggles - 2 * DIAG_BLINKS = Len(out) + 1
               /\ byte = sent[nread])
  /\ [][Diag => nread' \in {nread, nread + 1}]_vars

C16_Witness ==
  /\ Diag
  /\ pc = "echo"
  /\ nread = 2
  /\ Len(out) = 1
  /\ Len(rx) = 2

\* C17: bootloader: RAM is written only by the store of the receive loop,
\* one cell per step, at the write cursor; the offsets written are 0, 1,
\* 2, ... each once, so no stored byte is overwritten; the cells at and
\* beyond the cursor still hold what RAM held before the program ran; and
\* from the success phase on the buffer never changes.
C17_BufferFrame ==
  /\ [](Loader =>
          /\ \A n \in 1 .. Len(wlog) : wlog[n] = n - 1
          /\ \E f \in RamFill : \A a \in i .. RamCells - 1 : mem[a] = f)
  /\ [][Loader =>
          /\ (mem' # mem \/ wlog' # wlog) =>
               /\ pc = "store"
               /\ InReceiving'
               /\ wlog' = Append(wlog, i)
               /\ \A a \in 0 .. RamCells - 1 : a # i => mem'[a] = mem[a]
          /\ InSuccess => (mem' = mem /\ wlog' = wlog)]_vars

C17_Witness ==
  /\ Loader
  /\ pc = "slow_hi"
  /\ Len(wlog) = PROGRAM_SIZE
  /\ Len(sent) = PROGRAM_SIZE + 1
  /\ mem[PROGRAM_SIZE] \in RamFill

\* C18: both programs: nothing is read from the UART during the ready
\* blinks, nor in the bootloader's pause after them: bytes that arrive then
\* stay queued; the first uart_getc comes only once all the ready blinks
\* are done; and the bytes are consumed in arrival order, those consumed
\* followed by those queued being at all times the bytes sent.
C18_NoReadBeforeLoop ==
  /\ []((pc = "init" \/ InReady \/ pc = "pause") =>
          (nread = 0 /\ rx = sent))
  /\ [](nread <= Len(sent) /\ Consumed \o rx = sent)
  /\ [](nread > 0 =>
          /\ k = (IF Loader THEN 5 ELSE 3)
          /\ toggles >= 2 * k)
  /\ [][nread' # nread =>
          /\ pc \in {"store", "getc"}
          /\ nread' = nread + 1
          /\ rx # <<>>
          /\ rx' = Tail(rx)]_vars

C18_Witness ==
  /\ Diag
  /\ pc = "toggle"
  /\ nread = 1
  /\ Len(rx) = MaxPending - 1
  /\ byte = sent[1]
  /\ toggles = 2 * DIAG_BLINKS

====
